---------------------------- MODULE Spec2Model ----------------------------
(***************************************************************************)
(* A model of miniamf.util.pure.BufferedByteStream: an in-memory byte      *)
(* buffer (six.BytesIO) with a cursor, a lazily cached length, an endian   *)
(* code with its struct codec table, and typed readers and writers.        *)
(*                                                                         *)
(* six.BytesIO is modelled as io.BytesIO (the Python 3 branch of six):     *)
(* a record [value, pos].  A method of the class is an operator taking     *)
(* the stream record `self` and returning [self, ret, err]: the stream     *)
(* after the call, the returned value, and the exception raised ("none"    *)
(* when the call returns normally).  A call whose result is used more than *)
(* once is handed to an operator of its own, which models the statements   *)
(* that follow the call.                                                   *)
(***************************************************************************)
EXTENDS Integers, Sequences, FiniteSets, TLC

VARIABLES
    stream,          \* the BufferedByteStream object
    last,            \* the last call made on it: name, argument, result, state before
    trip,            \* a write_X / seek / read_X sequence in progress
    sum,             \* the objects of the last a + b: the new stream and b
    ENDIAN_SYSTEM,   \* byte order of the host, probed at import
    native_long      \* struct.calcsize('@l') of the host: 4 or 8

vars == <<stream, last, trip, sum, ENDIAN_SYSTEM, native_long>>

-----------------------------------------------------------------------------
(* Bounds of the model *)

\* longest storage the stream operations may build
MaxLen == 3

\* farthest cursor position seek may produce
MaxPos == MaxLen + 1

\* farthest position a typed write may begin at
MaxStart == 2

-----------------------------------------------------------------------------
(* Endian codes *)

ENDIAN_NETWORK == "!"

ENDIAN_NATIVE == "@"

ENDIAN_LITTLE == "<"

ENDIAN_BIG == ">"

VALID_ENDIANS == {ENDIAN_NETWORK, ENDIAN_NATIVE, ENDIAN_LITTLE, ENDIAN_BIG}

\* self._len = None
None == -1

Max(a, b) == IF a >= b THEN a ELSE b

Min(a, b) == IF a <= b THEN a ELSE b

Zeros(n) == [i \in 1..n |-> 0]

Reverse(s) == [i \in 1..Len(s) |-> s[Len(s) + 1 - i]]

-----------------------------------------------------------------------------
(* Results of a call *)

Ok(self, ret) == [self |-> self, ret |-> ret, err |-> "none"]

Raise(self, e) == [self |-> self, ret |-> <<>>, err |-> e]

-----------------------------------------------------------------------------
(* io.BytesIO: b is [value |-> sequence of bytes, pos |-> position]; a     *)
(* call gives [b, ret, err].                                               *)

\* seek(offset, whence): absolute seeks reject a negative offset, relative
\* and from-the-end seeks clamp at 0; no seek clamps at the end.
BytesIO_seek(b, offset, whence) ==
    IF whence = 0
    THEN IF offset < 0
         THEN [b |-> b, ret |-> 0, err |-> "ValueError"]
         ELSE [b |-> [b EXCEPT !.pos = offset], ret |-> offset, err |-> "none"]
    ELSE IF whence = 1
    THEN [b |-> [b EXCEPT !.pos = Max(0, b.pos + offset)],
          ret |-> Max(0, b.pos + offset), err |-> "none"]
    ELSE IF whence = 2
    THEN [b |-> [b EXCEPT !.pos = Max(0, Len(b.value) + offset)],
          ret |-> Max(0, Len(b.value) + offset), err |-> "none"]
    ELSE [b |-> b, ret |-> 0, err |-> "ValueError"]

\* the number of bytes read(size) returns: a negative size reads to the
\* end, and past the end nothing is left
BytesIO_count(b, size) ==
    IF size < 0 \/ size > Max(0, Len(b.value) - b.pos)
    THEN Max(0, Len(b.value) - b.pos)
    ELSE size

\* read(size): the position moves by what was read
BytesIO_read(b, size) ==
    [b |-> [b EXCEPT !.pos = b.pos + BytesIO_count(b, size)],
     ret |-> SubSeq(b.value, b.pos + 1, b.pos + BytesIO_count(b, size)),
     err |-> "none"]

\* the value a position past the end is written into: the gap is filled
\* with zero bytes
BytesIO_padded(b) ==
    IF b.pos > Len(b.value)
    THEN b.value \o Zeros(b.pos - Len(b.value))
    ELSE b.value

\* write(s): overwrites from pos, extending the value.  Writing nothing
\* changes nothing.
BytesIO_write(b, s) ==
    IF Len(s) = 0 THEN [b |-> b, ret |-> 0, err |-> "none"]
    ELSE [b |-> [value |-> SubSeq(BytesIO_padded(b), 1, b.pos) \o s
                             \o SubSeq(BytesIO_padded(b), b.pos + Len(s) + 1,
                                       Len(BytesIO_padded(b))),
                 pos |-> b.pos + Len(s)],
          ret |-> Len(s), err |-> "none"]

\* truncate(size): cuts the value at size; never extends it and never
\* moves the position.
BytesIO_truncate(b, size) ==
    IF size < 0
    THEN [b |-> b, ret |-> 0, err |-> "ValueError"]
    ELSE [b |-> [b EXCEPT !.value = SubSeq(b.value, 1, Min(size, Len(b.value)))],
          ret |-> size, err |-> "none"]

-----------------------------------------------------------------------------
(* Text *)

\* u.encode('utf-8') of one code point
utf8_char(cp) ==
    IF cp < 128 THEN <<cp>>
    ELSE IF cp < 2048 THEN <<192 + (cp \div 64), 128 + (cp % 64)>>
    ELSE IF cp < 65536
    THEN <<224 + (cp \div 4096), 128 + ((cp \div 64) % 64), 128 + (cp % 64)>>
    ELSE <<240 + (cp \div 262144), 128 + ((cp \div 4096) % 64),
           128 + ((cp \div 64) % 64), 128 + (cp % 64)>>

RECURSIVE utf8_encode(_)
\* u.encode('utf-8') of a text string, given as its code points
utf8_encode(u) ==
    IF Len(u) = 0 THEN <<>>
    ELSE utf8_char(Head(u)) \o utf8_encode(Tail(u))

-----------------------------------------------------------------------------
(* Codec table *)

Formats == {"B", "b", "h", "H", "l", "L", "d", "f"}

\* struct.Struct(endian + fmt) for each format
_compile_packers(endian) ==
    [fmt \in Formats |-> [endian |-> endian, fmt |-> fmt]]

-----------------------------------------------------------------------------
(* BufferedByteStream: storage, cursor, cached length *)

\* self._buf after a call on it that returned or raised
WithBuf(self, r) ==
    IF r.err # "none" THEN Raise(self, r.err)
    ELSE Ok([self EXCEPT !._buf = r.b], r.ret)

\* self._len = None after a call that returned; the method returns None
Invalidate(r) ==
    IF r.err # "none" THEN r
    ELSE Ok([r.self EXCEPT !._len = None], <<>>)

\* a setter that also rewinds the storage
endian_set_rewind(self, val) ==
    IF val \notin VALID_ENDIANS
    THEN Raise(self, "ValueError")
    ELSE Ok([self EXCEPT !._endian = val, !._packers = _compile_packers(val),
                         !._buf.pos = 0], <<>>)

\* a setter that assigns before it validates
endian_set_unchecked(self, val) ==
    IF val \notin VALID_ENDIANS
    THEN Raise([self EXCEPT !._endian = val], "ValueError")
    ELSE Ok([self EXCEPT !._endian = val, !._packers = _compile_packers(val)], <<>>)

\* the endian property setter
endian_set(self, val) ==
    IF val \notin VALID_ENDIANS
    THEN Raise(self, "ValueError")
    ELSE Ok([self EXCEPT !._endian = val, !._packers = _compile_packers(val)], <<>>)

\* the endian property getter
endian_get(self) == Ok(self, self._endian)

\* Arguments of __init__ and append: data is [kind, value, pos] with kind
\*   "none"   None
\*   "bytes"  a byte string, value its bytes
\*   "text"   a text string, value its code points
\*   "stream" an object with getvalue (a BufferedByteStream, a BytesIO)
\*   "file"   an object with read, seek and tell and no getvalue
\*   "other"  anything else (an int, a list)
NoData == [kind |-> "none", value |-> <<>>, pos |-> 0]

\* s = data.read(); data.seek(old_pos, 0)
file_restore(data, rd) ==
    [data |-> [data EXCEPT !.pos = BytesIO_seek(rd.b, data.pos, 0).b.pos],
     s |-> rd.ret]

\* old_pos = data.tell(); data.seek(0); then the read and the seek back
file_capture(data) ==
    file_restore(data,
        BytesIO_read(BytesIO_seek([value |-> data.value, pos |-> data.pos], 0, 0).b, -1))

\* the stream before any data is loaded
fresh(endian) ==
    [_buf |-> [value |-> <<>>, pos |-> 0], _len |-> 0,
     _endian |-> endian, _packers |-> _compile_packers(endian)]

\* self._buf.write(data); self._buf.seek(0, 0); self._len = len(data)
load(self, bytes, src) ==
    Ok([self EXCEPT !._buf = BytesIO_seek(BytesIO_write(self._buf, bytes).b, 0, 0).b,
                    !._len = Len(bytes)], src)

load_file(self, c) == load(self, c.s, c.data)

\* BufferedByteStream(data, endian); ret is the argument object after the call
__init__(data, endian) ==
    IF endian \notin VALID_ENDIANS THEN Raise(fresh(endian), "ValueError")
    ELSE IF data.kind = "none" THEN Ok(fresh(endian), data)
    ELSE IF data.kind = "bytes" THEN load(fresh(endian), data.value, data)
    ELSE IF data.kind = "stream" THEN load(fresh(endian), data.value, data)
    ELSE IF data.kind = "file" THEN load_file(fresh(endian), file_capture(data))
    ELSE IF data.kind = "text" THEN load(fresh(endian), utf8_encode(data.value), data)
    ELSE Raise(fresh(endian), "TypeError")

\* self._len = self._buf.tell() at the end; self._buf.seek(old_pos)
len_recompute(self, e) ==
    Ok([self EXCEPT !._len = e.ret,
                    !._buf = BytesIO_seek(e.b, self._buf.pos, 0).b], e.ret)

\* len(stream): recomputes the cached length when it is None
__len__(self) ==
    IF self._len = None
    THEN len_recompute(self, BytesIO_seek(self._buf, 0, 2))
    ELSE Ok(self, self._len)

seek(self, offset, whence) == WithBuf(self, BytesIO_seek(self._buf, offset, whence))

tell(self) == self._buf.pos

truncate(self, size) == Invalidate(WithBuf(self, BytesIO_truncate(self._buf, size)))

getvalue(self) == self._buf.value

\* a write that leaves the cached length stale: the same, without
\* self._len = None
write_stale(self, s) == WithBuf(self, BytesIO_write(self._buf, s))

write(self, s) == Invalidate(WithBuf(self, BytesIO_write(self._buf, s)))

\* if len(bytes) > 0: self._buf.write(bytes); self._buf.seek(0)
consume_rewrite(cut, bytes) ==
    IF Len(bytes) > 0
    THEN BytesIO_seek(BytesIO_write(cut.b, bytes).b, 0, 0)
    ELSE cut

\* self._buf.truncate(0) after bytes = self._buf.read()
consume_truncate(rd) == consume_rewrite(BytesIO_truncate(rd.b, 0), rd.ret)

consume(self) ==
    Invalidate(WithBuf(self, consume_truncate(BytesIO_read(self._buf, -1))))

remaining_of(l) == Ok(l.self, l.ret - tell(l.self))

remaining(self) == remaining_of(__len__(self))

at_eof_of(l) == Ok(l.self, tell(l.self) = l.ret)

at_eof(self) == at_eof_of(__len__(self))

\* read, from the at_eof test on
read_checked(eof, length) ==
    IF eof.ret THEN Raise(eof.self, "IOError")
    ELSE IF length # -1 /\ eof.self._buf.pos + length > __len__(eof.self).ret
    THEN Raise(eof.self, "IOError")
    ELSE WithBuf(eof.self, BytesIO_read(eof.self._buf, length))

\* a read that skips the end-of-stream test
read_no_eof(self, length) ==
    IF length = 0 THEN Ok(self, <<>>)
    ELSE IF length < -1 THEN Raise(self, "IOError")
    ELSE read_checked(Ok(self, FALSE), length)

read(self, length) ==
    IF length = 0 THEN Ok(self, <<>>)
    ELSE IF length < -1 THEN Raise(self, "IOError")
    ELSE read_checked(at_eof(self), length)

RECURSIVE peek_loop(_, _, _)
\* peeked += self.read(1)
peek_more(r, peeked, size) ==
    IF r.err # "none" THEN r
    ELSE peek_loop(r.self, peeked \o r.ret, size)

\* while not self.at_eof() and len(peeked) != size
peek_test(eof, peeked, size) ==
    IF ~eof.ret /\ Len(peeked) # size
    THEN peek_more(read(eof.self, 1), peeked, size)
    ELSE Ok(eof.self, peeked)

peek_loop(self, peeked, size) == peek_test(at_eof(self), peeked, size)

\* a peek that forgets to seek back to the position it started from
peek_forward(lp, pos) == lp

\* self.seek(pos); return peeked
peek_back(lp, pos) ==
    IF lp.err # "none" THEN lp
    ELSE Ok(seek(lp.self, pos, 0).self, lp.ret)

\* peek(size) for size # -1
peek_from(self, size) ==
    IF size < -1 THEN Raise(self, "ValueError")
    ELSE peek_back(peek_loop(self, <<>>, size), tell(self))

\* peek(-1) calls peek(len(self) - self.tell()); when that argument is -1
\* again the call recurses on an unchanged stream until the interpreter's
\* recursion limit raises RecursionError.
peek_rest(l) ==
    IF l.ret - tell(l.self) = -1 THEN Raise(l.self, "RecursionError")
    ELSE peek_from(l.self, l.ret - tell(l.self))

peek(self, size) ==
    IF size = -1 THEN peek_rest(__len__(self))
    ELSE peek_from(self, size)

\* an append that leaves the cursor after the bytes it wrote
append_stay(self, bytes) == Ok(write(seek(self, 0, 2).self, bytes).self, <<>>)

\* t = self.tell(); self.seek(0, 2); self.write(data); self.seek(t, 0)
append_bytes(self, bytes) ==
    Ok(seek(write(seek(self, 0, 2).self, bytes).self, tell(self), 0).self, <<>>)

\* six.string_types is (str,): a byte string is not a string here, and it
\* has neither getvalue nor read, so it is refused like any other object.
\* A file-like object reaches dt = data.tell(); dt.seek(0, 0), which calls
\* seek on the int that tell returned.
append(self, data) ==
    IF data.kind = "text" THEN append_bytes(self, utf8_encode(data.value))
    ELSE IF data.kind = "stream" THEN append_bytes(self, data.value)
    ELSE IF data.kind = "file" THEN Raise(self, "AttributeError")
    ELSE Raise(self, "TypeError")

\* return new
add_result(self, a) ==
    IF a.err # "none" THEN Raise(self, a.err)
    ELSE Ok(self, a.self)

\* an addition that appends to self and returns it
add_in_place(self, other) == add_result(append(self, other).self, append(self, other))

\* self + other: ret is the new stream; self is left alone
__add__(self, other) ==
    add_result(self,
        append(__init__([kind |-> "stream", value |-> getvalue(self),
                         pos |-> tell(self)], ENDIAN_NETWORK).self, other))

-----------------------------------------------------------------------------
(* Python integers.  An int n is kept as [hi, lo] with n = hi * 65536 + lo *)
(* and 0 <= lo < 65536, so that the 32-bit limits of the source            *)
(* (4294967295, -2147483648) and the values beyond them are exact.         *)

Big(hi, lo) == [hi |-> hi, lo |-> lo]

\* the int n, for an n of at most 31 bits
Num(n) == [hi |-> n \div 65536, lo |-> n % 65536]

\* a <= b
LE(a, b) == a.hi < b.hi \/ (a.hi = b.hi /\ a.lo <= b.lo)

\* the machine number of a Python int known to fit 31 bits
Small(v) == v.hi * 65536 + v.lo

\* byte k of the two's complement form of v, byte 0 the least significant
ByteAt(v, k) ==
    IF k < 2 THEN (v.lo \div (256 ^ k)) % 256
    ELSE IF k < 4 THEN (v.hi \div (256 ^ (k - 2))) % 256
    ELSE ((v.hi \div 65536) \div (256 ^ (k - 4))) % 256

\* Arguments of the typed writers: [kind, v] with kind "int" (v an int as
\* above), "float" (v the 8 bytes of the double, most significant first),
\* "text" (v the code points) or "bytes" (v the bytes).
IntArg(v) == [kind |-> "int", v |-> v]

-----------------------------------------------------------------------------
(* struct.Struct: st is [endian, fmt] *)

\* a struct that packs every format most significant byte first
struct_big_only(st) == FALSE

\* '@' uses the host's byte order; '!' and '>' are big-endian
struct_little(st) ==
    IF st.endian = ENDIAN_NATIVE THEN ENDIAN_SYSTEM = ENDIAN_LITTLE
    ELSE st.endian = ENDIAN_LITTLE

\* struct.calcsize: standard sizes, except that '@' takes the host's C long
struct_size(st) ==
    IF st.fmt \in {"B", "b"} THEN 1
    ELSE IF st.fmt \in {"h", "H"} THEN 2
    ELSE IF st.fmt \in {"l", "L"}
    THEN (IF st.endian = ENDIAN_NATIVE THEN native_long ELSE 4)
    ELSE IF st.fmt = "f" THEN 4
    ELSE 8

\* the bytes in the order of st, given most significant first
struct_order(st, be) == IF struct_little(st) THEN Reverse(be) ELSE be

\* the single with sign, exponent e and mantissa m, where m may have
\* carried into bit 23.  When the exponent does not fit, the standard
\* formats fail and '@', a C cast, gives infinity.
single_bytes(sign, e, m, native) ==
    IF e + (m \div 8388608) >= 255
    THEN IF native THEN [bytes |-> <<sign * 128 + 127, 128, 0, 0>>, err |-> "none"]
         ELSE [bytes |-> <<>>, err |-> "OverflowError"]
    ELSE [bytes |-> <<sign * 128 + ((e + (m \div 8388608)) \div 2),
                      ((e + (m \div 8388608)) % 2) * 128 + ((m % 8388608) \div 65536),
                      ((m % 8388608) \div 256) % 256,
                      m % 256>>,
          err |-> "none"]

\* the 23 leading mantissa bits m23 of a double rounded by the 29 bits
\* rest that follow them: to nearest, a tie to even
single_round(m23, rest) ==
    IF rest > 268435456 \/ (rest = 268435456 /\ m23 % 2 = 1) THEN m23 + 1 ELSE m23

\* the single nearest to a normal double d, given as its 8 bytes
double_to_single(d, native) ==
    single_bytes(d[1] \div 128,
                 IF (d[1] % 128) * 16 + (d[2] \div 16) = 0 THEN 0
                 ELSE (d[1] % 128) * 16 + (d[2] \div 16) - 1023 + 127,
                 single_round((d[2] % 16) * 524288 + d[3] * 2048 + d[4] * 8 + (d[5] \div 32),
                              (d[5] % 32) * 16777216 + d[6] * 65536 + d[7] * 256 + d[8]),
                 native)

\* the bytes of a conversion in the order of st
pack_ordered(st, c) == [bytes |-> struct_order(st, c.bytes), err |-> c.err]

\* st.pack(v) for a value the caller has type checked
struct_pack(st, v) ==
    IF st.fmt = "d" THEN [bytes |-> struct_order(st, v), err |-> "none"]
    ELSE IF st.fmt = "f" THEN pack_ordered(st, double_to_single(v, st.endian = ENDIAN_NATIVE))
    ELSE [bytes |-> struct_order(st, [i \in 1..struct_size(st) |->
                                          ByteAt(v, struct_size(st) - i)]),
          err |-> "none"]

\* the int whose bytes are be, most significant first.  An 8-byte native
\* long is decoded from its low 4 bytes: the readers never hand unpack
\* more than 4.
unpack_int(fmt, be, n) ==
    IF n = 1
    THEN Num(IF fmt = "b" /\ be[1] >= 128 THEN be[1] - 256 ELSE be[1])
    ELSE IF n = 2
    THEN Num(IF fmt = "h" /\ be[1] >= 128
             THEN be[1] * 256 + be[2] - 65536 ELSE be[1] * 256 + be[2])
    ELSE Big(IF fmt = "l" /\ be[1] >= 128
             THEN be[n - 3] * 256 + be[n - 2] - 65536 ELSE be[n - 3] * 256 + be[n - 2],
             be[n - 1] * 256 + be[n])

\* st.unpack(s)[0]: an int for the integer formats, for the float formats
\* [fmt, bits], the float with that bit pattern in that format
struct_unpack(st, s) ==
    IF Len(s) # struct_size(st) THEN [val |-> <<>>, err |-> "struct.error"]
    ELSE IF st.fmt \in {"f", "d"}
    THEN [val |-> [fmt |-> st.fmt, bits |-> struct_order(st, s)], err |-> "none"]
    ELSE [val |-> unpack_int(st.fmt, struct_order(st, s), Len(s)), err |-> "none"]

-----------------------------------------------------------------------------
(* Typed readers and writers *)

_is_little_endian(self) ==
    IF self._endian = ENDIAN_NATIVE THEN ENDIAN_SYSTEM = ENDIAN_LITTLE
    ELSE self._endian = ENDIAN_LITTLE

\* the value unpack returned, or the error it raised
unpacked(self, u) ==
    IF u.err # "none" THEN Raise(self, u.err)
    ELSE Ok(self, u.val)

\* self._packers[fmt].unpack(self.read(n))[0], given what read did
unpack_read(r, fmt) ==
    IF r.err # "none" THEN r
    ELSE unpacked(r.self, struct_unpack(r.self._packers[fmt], r.ret))

read_uchar(self) == unpack_read(read(self, 1), "B")

\* a write_uchar that finds the overflow only after the byte went out
write_uchar_late(self, c) ==
    IF c.kind # "int" THEN Raise(self, "TypeError")
    ELSE IF ~(LE(Num(0), c.v) /\ LE(c.v, Num(255)))
    THEN Raise(write(self, struct_pack(self._packers["B"], c.v).bytes).self,
               "OverflowError")
    ELSE write(self, struct_pack(self._packers["B"], c.v).bytes)

\* 0 <= c <= 255
write_uchar(self, c) ==
    IF c.kind # "int" THEN Raise(self, "TypeError")
    ELSE IF ~(LE(Num(0), c.v) /\ LE(c.v, Num(255))) THEN Raise(self, "OverflowError")
    ELSE write(self, struct_pack(self._packers["B"], c.v).bytes)

read_char(self) == unpack_read(read(self, 1), "b")

\* a write_char whose lower limit is off by one
write_char_strict(self, c) ==
    IF c.kind # "int" THEN Raise(self, "TypeError")
    ELSE IF ~(LE(Num(-127), c.v) /\ LE(c.v, Num(127))) THEN Raise(self, "OverflowError")
    ELSE write(self, struct_pack(self._packers["b"], c.v).bytes)

\* -128 <= c <= 127
write_char(self, c) ==
    IF c.kind # "int" THEN Raise(self, "TypeError")
    ELSE IF ~(LE(Num(-128), c.v) /\ LE(c.v, Num(127))) THEN Raise(self, "OverflowError")
    ELSE write(self, struct_pack(self._packers["b"], c.v).bytes)

read_ushort(self) == unpack_read(read(self, 2), "H")

\* 0 <= s <= 65535
write_ushort(self, s) ==
    IF s.kind # "int" THEN Raise(self, "TypeError")
    ELSE IF ~(LE(Num(0), s.v) /\ LE(s.v, Num(65535))) THEN Raise(self, "OverflowError")
    ELSE write(self, struct_pack(self._packers["H"], s.v).bytes)

read_short(self) == unpack_read(read(self, 2), "h")

\* -32768 <= s <= 32767
write_short(self, s) ==
    IF s.kind # "int" THEN Raise(self, "TypeError")
    ELSE IF ~(LE(Num(-32768), s.v) /\ LE(s.v, Num(32767))) THEN Raise(self, "OverflowError")
    ELSE write(self, struct_pack(self._packers["h"], s.v).bytes)

read_ulong(self) == unpack_read(read(self, 4), "L")

\* 0 <= l <= 4294967295
write_ulong(self, l) ==
    IF l.kind # "int" THEN Raise(self, "TypeError")
    ELSE IF ~(LE(Num(0), l.v) /\ LE(l.v, Big(65535, 65535))) THEN Raise(self, "OverflowError")
    ELSE write(self, struct_pack(self._packers["L"], l.v).bytes)

read_long(self) == unpack_read(read(self, 4), "l")

\* -2147483648 <= l <= 2147483647
write_long(self, l) ==
    IF l.kind # "int" THEN Raise(self, "TypeError")
    ELSE IF ~(LE(Big(-32768, 0), l.v) /\ LE(l.v, Big(32767, 65535))) THEN Raise(self, "OverflowError")
    ELSE write(self, struct_pack(self._packers["l"], l.v).bytes)

\* order = [0, 8, 16] or [16, 8, 0]
order24(self) == IF _is_little_endian(self) THEN <<0, 8, 16>> ELSE <<16, 8, 0>>

RECURSIVE read_24bit_loop(_, _, _)
\* n += (self.read_uchar() << x)
read_24bit_shift(r, order, n) ==
    IF r.err # "none" THEN r
    ELSE read_24bit_loop(r.self, Tail(order), n + Small(r.ret) * (2 ^ Head(order)))

\* for x in order; ret is the machine number n
read_24bit_loop(self, order, n) ==
    IF Len(order) = 0 THEN Ok(self, n)
    ELSE read_24bit_shift(read_uchar(self), order, n)

\* return n
read_24bit_return(r) == IF r.err # "none" THEN r ELSE Ok(r.self, Num(r.ret))

read_24bit_uint(self) ==
    read_24bit_return(read_24bit_loop(self, order24(self), 0))

RECURSIVE write_24bit_loop(_, _, _)
\* the next x in order, unless write_uchar raised
write_24bit_next(w, order, n) ==
    IF w.err # "none" THEN w
    ELSE write_24bit_loop(w.self, Tail(order), n)

\* for x in order: self.write_uchar((n >> x) & 0xff)
write_24bit_loop(self, order, n) ==
    IF Len(order) = 0 THEN Ok(self, <<>>)
    ELSE write_24bit_next(
             write_uchar(self, IntArg(Num((n \div (2 ^ Head(order))) % 256))),
             order, n)

\* 0 <= n <= 0xffffff
write_24bit_uint(self, n) ==
    IF n.kind # "int" THEN Raise(self, "TypeError")
    ELSE IF ~(LE(Num(0), n.v) /\ LE(n.v, Num(16777215))) THEN Raise(self, "OverflowError")
    ELSE write_24bit_loop(self, order24(self), Small(n.v))

\* if n & 0x800000 != 0: n -= 0x1000000
read_24bit_sign(r) ==
    IF r.err # "none" THEN r
    ELSE Ok(r.self, Num(IF (r.ret \div 8388608) % 2 # 0 THEN r.ret - 16777216 ELSE r.ret))

read_24bit_int(self) ==
    read_24bit_sign(read_24bit_loop(self, order24(self), 0))

\* -8388608 <= n <= 8388607; if n < 0: n += 0x1000000
write_24bit_int(self, n) ==
    IF n.kind # "int" THEN Raise(self, "TypeError")
    ELSE IF ~(LE(Num(-8388608), n.v) /\ LE(n.v, Num(8388607)))
    THEN Raise(self, "OverflowError")
    ELSE write_24bit_loop(self, order24(self),
                          IF Small(n.v) < 0 THEN Small(n.v) + 16777216 ELSE Small(n.v))

read_double(self) == unpack_read(read(self, 8), "d")

write_double(self, d) ==
    IF d.kind # "float" THEN Raise(self, "TypeError")
    ELSE write(self, struct_pack(self._packers["d"], d.v).bytes)

read_float(self) == unpack_read(read(self, 4), "f")

\* self.write(packed), unless pack raised: OverflowError for a float too
\* large for the format
write_packed(self, p) ==
    IF p.err # "none" THEN Raise(self, p.err)
    ELSE write(self, p.bytes)

write_float(self, f) ==
    IF f.kind # "float" THEN Raise(self, "TypeError")
    ELSE write_packed(self, struct_pack(self._packers["f"], f.v))

write_utf8_string(self, u) ==
    IF u.kind = "text" THEN write(self, utf8_encode(u.v))
    ELSE IF u.kind = "bytes" THEN write(self, u.v)
    ELSE Raise(self, "TypeError")

\* The typed writers and readers by name
IntTypes == {"uchar", "char", "ushort", "short", "ulong", "long",
             "24bit_uint", "24bit_int"}

write_X(X, self, v) ==
    CASE X = "uchar" -> write_uchar(self, v)
      [] X = "char" -> write_char(self, v)
      [] X = "ushort" -> write_ushort(self, v)
      [] X = "short" -> write_short(self, v)
      [] X = "ulong" -> write_ulong(self, v)
      [] X = "long" -> write_long(self, v)
      [] X = "24bit_uint" -> write_24bit_uint(self, v)
      [] X = "24bit_int" -> write_24bit_int(self, v)
      [] X = "float" -> write_float(self, v)
      [] X = "double" -> write_double(self, v)
      [] X = "utf8_string" -> write_utf8_string(self, v)

read_X(X, self) ==
    CASE X = "uchar" -> read_uchar(self)
      [] X = "char" -> read_char(self)
      [] X = "ushort" -> read_ushort(self)
      [] X = "short" -> read_short(self)
      [] X = "ulong" -> read_ulong(self)
      [] X = "long" -> read_long(self)
      [] X = "24bit_uint" -> read_24bit_uint(self)
      [] X = "24bit_int" -> read_24bit_int(self)
      [] X = "float" -> read_float(self)
      [] X = "double" -> read_double(self)

-----------------------------------------------------------------------------
(* Inputs of the calls *)

SeekOffsets == -1..2

Whences == 0..3

ReadLengths == -2..2

PeekSizes == -2..2

TruncateSizes == -1..2

WriteInputs == {<<>>, <<97>>, <<98, 97>>}

Bytes(s) == [kind |-> "bytes", value |-> s, pos |-> 0]

Text(u) == [kind |-> "text", value |-> u, pos |-> 0]

Stream(s, p) == [kind |-> "stream", value |-> s, pos |-> p]

File(s, p) == [kind |-> "file", value |-> s, pos |-> p]

Other == [kind |-> "other", value |-> <<>>, pos |-> 0]

InitData == {NoData, Bytes(<<97, 98>>), Text(<<97>>), Stream(<<98>>, 1),
             File(<<97, 98, 97>>, 1)}

AppendInputs ==
    {Bytes(<<97>>), Text(<<97>>), Text(<<233>>), Stream(<<98>>, 1), File(<<97>>, 1), Other}

AddInputs == {Stream(<<98>>, 1), Stream(<<97, 98>>, 0), Bytes(<<97>>)}

TypedInitData == {NoData, Bytes(<<17, 34, 51, 68>>)}

\* the limits of every integer type, the values next to them, and values
\* whose bytes all differ
IntValues ==
    {Num(-1), Num(0), Num(1), Num(127), Num(128), Num(-128), Num(-129),
     Num(255), Num(256), Num(258), Num(32767), Num(32768), Num(-32768),
     Num(-32769), Num(65535), Num(65536), Num(66051), Num(8388607),
     Num(8388608), Num(-8388608), Num(-8388609), Num(16777215), Num(16777216),
     Big(258, 772), Big(32767, 65535), Big(32768, 0), Big(-32768, 0),
     Big(-32769, 65535), Big(65535, 65535), Big(65536, 0)}

\* 1.0 and 1e40 as doubles
FloatOne == [kind |-> "float", v |-> <<63, 240, 0, 0, 0, 0, 0, 0>>]

FloatHuge == [kind |-> "float", v |-> <<72, 61, 99, 41, 241, 195, 92, 165>>]

TextArg == [kind |-> "text", v |-> <<97, 233>>]

BytesArg == [kind |-> "bytes", v |-> <<97, 98>>]

WriteTypes == IntTypes \cup {"float", "double", "utf8_string"}

ReadTypes == IntTypes \cup {"float", "double"}

TypedArgs(X) ==
    IF X \in IntTypes THEN {IntArg(v) : v \in IntValues} \cup {FloatOne, TextArg}
    ELSE IF X \in {"float", "double"} THEN {FloatOne, FloatHuge, IntArg(Num(1))}
    ELSE {TextArg, BytesArg, IntArg(Num(1))}

\* values assigned to stream.endian: the four codes, '=' (a byte order
\* mark of struct that is not a code of the class) and ''
EndianInputs == VALID_ENDIANS \cup {"=", ""}

\* the storage and the cursor stay within the bounds of the model
InBounds(s) == Len(s._buf.value) <= MaxLen /\ s._buf.pos <= MaxPos

NoTrip == [phase |-> "off", X |-> "", v |-> <<>>, start |-> 0]

\* no result of an addition is held
NoSum == [live |-> FALSE, new |-> NoData, other |-> NoData]

-----------------------------------------------------------------------------
(* The stream operations, one action per method call *)

\* the call `op(arg)` returned or raised: r is its [self, ret, err]
Call(op, arg, r) ==
    /\ stream' = r.self
    /\ last' = [op |-> op, arg |-> arg, ret |-> r.ret, err |-> r.err, pre |-> stream]
    /\ sum' = NoSum
    /\ UNCHANGED <<ENDIAN_SYSTEM, native_long>>

\* a call that keeps the stream within the bounds of the model
BoundedCall(op, arg, r) == InBounds(r.self) /\ Call(op, arg, r)

\* the object BufferedByteStream(data, endian) made
Constructed(data, r) ==
    /\ r.err = "none"
    /\ stream = r.self
    /\ last = [op |-> "__init__", arg |-> data, ret |-> r.ret, err |-> r.err,
               pre |-> r.self]
    /\ sum = NoSum

\* The hosts a build can run on: either byte order, a 4- or 8-byte C long
Host ==
    /\ ENDIAN_SYSTEM \in {ENDIAN_LITTLE, ENDIAN_BIG}
    /\ native_long \in {4, 8}

\* BufferedByteStream(data).  No operation of Spec consults the host, so
\* Spec runs on one host; SpecTyped runs the typed operations on every host.
Init ==
    /\ ENDIAN_SYSTEM = ENDIAN_LITTLE
    /\ native_long = 8
    /\ \E data \in InitData : Constructed(data, __init__(data, ENDIAN_NETWORK))
    /\ trip = NoTrip

DoSeek ==
    /\ \E offset \in SeekOffsets, whence \in Whences :
         BoundedCall("seek", <<offset, whence>>, seek(stream, offset, whence))
    /\ UNCHANGED trip

DoTruncate ==
    /\ \E size \in TruncateSizes : Call("truncate", size, truncate(stream, size))
    /\ UNCHANGED trip

DoWrite ==
    /\ \E s \in WriteInputs : BoundedCall("write", s, write(stream, s))
    /\ UNCHANGED trip

DoConsume ==
    /\ BoundedCall("consume", <<>>, consume(stream))
    /\ UNCHANGED trip

DoRead ==
    /\ \E length \in ReadLengths : Call("read", length, read(stream, length))
    /\ UNCHANGED trip

DoPeek ==
    /\ \E size \in PeekSizes : Call("peek", size, peek(stream, size))
    /\ UNCHANGED trip

DoLength ==
    /\ Call("__len__", <<>>, __len__(stream))
    /\ UNCHANGED trip

DoRemaining ==
    /\ Call("remaining", <<>>, remaining(stream))
    /\ UNCHANGED trip

DoAtEof ==
    /\ Call("at_eof", <<>>, at_eof(stream))
    /\ UNCHANGED trip

DoAppend ==
    /\ \E data \in AppendInputs : BoundedCall("append", data, append(stream, data))
    /\ UNCHANGED trip

\* new = self + other returned or raised: the program now holds self, other
\* and, when it returned, new
Added(other, r) ==
    /\ stream' = r.self
    /\ last' = [op |-> "__add__", arg |-> other, ret |-> r.ret, err |-> r.err,
                pre |-> stream]
    /\ sum' = IF r.err = "none" THEN [live |-> TRUE, new |-> r.ret, other |-> other]
              ELSE NoSum
    /\ UNCHANGED <<ENDIAN_SYSTEM, native_long>>

DoAdd ==
    /\ \E other \in AddInputs : Added(other, __add__(stream, other))
    /\ UNCHANGED trip

\* new.write(s) returned: new holds its own BytesIO, made by its __init__
SumWritten(s, r) ==
    /\ sum' = [sum EXCEPT !.new = r.self]
    /\ last' = [op |-> "new.write", arg |-> [s |-> s, other |-> sum.other],
                ret |-> r.ret, err |-> r.err, pre |-> stream]
    /\ UNCHANGED <<stream, ENDIAN_SYSTEM, native_long>>

\* new.write(s) on the stream that self + other has just returned
DoSumWrite ==
    /\ sum.live
    /\ last.op = "__add__"
    /\ \E s \in WriteInputs : SumWritten(s, write(sum.new, s))
    /\ UNCHANGED trip

Next ==
    \/ DoSeek
    \/ DoTruncate
    \/ DoWrite
    \/ DoConsume
    \/ DoRead
    \/ DoPeek
    \/ DoLength
    \/ DoRemaining
    \/ DoAtEof
    \/ DoAppend
    \/ DoAdd
    \/ DoSumWrite

Spec == Init /\ [][Next]_vars

-----------------------------------------------------------------------------
(* The typed operations: a stream is built and positioned, a value is     *)
(* written with write_X, the cursor is put back where the write began and *)
(* the value is read with read_X.                                          *)

\* BufferedByteStream(data, endian) on any host
InitTyped ==
    /\ Host
    /\ \E data \in TypedInitData, endian \in VALID_ENDIANS :
         Constructed(data, __init__(data, endian))
    /\ trip = [phase |-> "new", X |-> "", v |-> <<>>, start |-> 0]

\* stream.seek(p)
Position ==
    /\ trip.phase = "new"
    /\ \E p \in 0..MaxStart : Call("seek", <<p, 0>>, seek(stream, p, 0))
    /\ trip' = [trip EXCEPT !.phase = "idle"]

\* stream.write_X(v)
TripWrite ==
    /\ trip.phase = "idle"
    /\ \E X \in WriteTypes :
         \E v \in TypedArgs(X) :
            /\ Call("write_X", [X |-> X, v |-> v], write_X(X, stream, v))
            /\ trip' = [phase |-> "written", X |-> X, v |-> v, start |-> tell(stream)]

\* stream.seek(start)
TripSeek ==
    /\ trip.phase = "written"
    /\ trip.X \in ReadTypes
    /\ Call("seek", <<trip.start, 0>>, seek(stream, trip.start, 0))
    /\ trip' = [trip EXCEPT !.phase = "sought"]

\* stream.read_X()
TripRead ==
    /\ trip.phase = "sought"
    /\ Call("read_X", [X |-> trip.X, v |-> <<>>], read_X(trip.X, stream))
    /\ trip' = [trip EXCEPT !.phase = "read"]

\* stream.endian = val, before the write or after the read
DoEndian ==
    /\ trip.phase \in {"idle", "read"}
    /\ \E val \in EndianInputs : Call("endian", val, endian_set(stream, val))
    /\ trip' = [trip EXCEPT !.phase = IF trip.phase = "read" THEN "switched" ELSE "idle"]

\* stream.seek(start), after the endian was assigned
SwitchSeek ==
    /\ trip.phase = "switched"
    /\ Call("seek", <<trip.start, 0>>, seek(stream, trip.start, 0))
    /\ trip' = [trip EXCEPT !.phase = "reseek"]

\* stream.read_X() of the bytes written before the endian was assigned
SwitchRead ==
    /\ trip.phase = "reseek"
    /\ Call("read_X", [X |-> trip.X, v |-> <<>>], read_X(trip.X, stream))
    /\ trip' = [trip EXCEPT !.phase = "reread"]

NextTyped ==
    \/ Position
    \/ TripWrite
    \/ TripSeek
    \/ TripRead
    \/ DoEndian
    \/ SwitchSeek
    \/ SwitchRead

SpecTyped == InitTyped /\ [][NextTyped]_vars

-----------------------------------------------------------------------------
(* Properties of the storage, the cursor and the cached length (Spec) *)

\* C1: after any sequence of operations 0 <= tell() <= len(stream).
\* The code does not keep this: seek moves the cursor past the end, and
\* truncate and consume shorten the storage under it.
C1_CursorWithinLength ==
    0 <= tell(stream) /\ tell(stream) <= __len__(stream).ret

\* C2: len(stream) equals the number of bytes getvalue() returns: the
\* cached length is None or the true size of the storage.
C2_LengthIsStorageSize ==
    /\ __len__(stream).ret = Len(getvalue(stream))
    /\ stream._len = None \/ stream._len = Len(getvalue(stream))

\* C2 witness: a write changed the size of a stream whose length was cached
C2_Witness ==
    /\ last.op = "write"
    /\ last.pre._len # None
    /\ Len(getvalue(stream)) > Len(getvalue(last.pre))

\* C3: consume() on M bytes with the cursor at N (0 <= N <= M) leaves
\* tell() = 0, len(stream) = M - N and getvalue() = the unread bytes.
C3_ConsumeCompacts ==
    (last.op = "consume" /\ tell(last.pre) <= Len(getvalue(last.pre)))
    => /\ tell(stream) = 0
       /\ __len__(stream).ret = Len(getvalue(last.pre)) - tell(last.pre)
       /\ getvalue(stream) = SubSeq(getvalue(last.pre), tell(last.pre) + 1,
                                    Len(getvalue(last.pre)))

\* C4: peek(size), size >= -1, leaves tell() and the storage as they were.
C4_PeekKeepsCursor ==
    (last.op = "peek" /\ last.arg >= -1)
    => /\ tell(stream) = tell(last.pre)
       /\ getvalue(stream) = getvalue(last.pre)

\* C4 witness: a peek returned two bytes it had to read past
C4_Witness ==
    /\ last.op = "peek"
    /\ last.err = "none"
    /\ Len(last.ret) = 2
    /\ tell(stream) < Len(getvalue(stream))

\* the bytes that follow the cursor of s
Unread(s) == SubSeq(getvalue(s), tell(s) + 1, Len(getvalue(s)))

\* C5: peek(size), size >= 0, never fails and returns the
\* min(size, bytes after the cursor) bytes that follow the cursor.
C5_PeekNeverFails ==
    (last.op = "peek" /\ last.arg >= 0)
    => /\ last.err = "none"
       /\ last.ret = SubSeq(Unread(last.pre), 1, Min(last.arg, Len(Unread(last.pre))))

\* C6: on a stream not at end-of-stream, read(n), n >= 1, returns the n
\* bytes at the cursor and advances by n when n <= remaining(), and fails
\* with IOError changing nothing otherwise; read(-1) returns the bytes to
\* the end and leaves the cursor at len(stream).
C6_ReadBeforeEof ==
    (last.op = "read" /\ ~at_eof(last.pre).ret)
    => /\ (last.arg >= 1 /\ last.arg <= remaining(last.pre).ret)
          => /\ last.err = "none"
             /\ last.ret = SubSeq(Unread(last.pre), 1, last.arg)
             /\ tell(stream) = tell(last.pre) + last.arg
       /\ (last.arg >= 1 /\ last.arg > remaining(last.pre).ret)
          => /\ last.err = "IOError"
             /\ tell(stream) = tell(last.pre)
             /\ getvalue(stream) = getvalue(last.pre)
       /\ last.arg = -1
          => /\ last.err = "none"
             /\ last.ret = Unread(last.pre)
             /\ tell(stream) = __len__(stream).ret

\* C7: at end-of-stream read(n) fails with IOError for every n # 0 and
\* leaves the cursor; read(0) returns b'' and changes nothing in any state.
C7_ReadAtEof ==
    last.op = "read"
    => /\ (at_eof(last.pre).ret /\ last.arg # 0)
          => /\ last.err = "IOError"
             /\ tell(stream) = tell(last.pre)
       /\ last.arg = 0
          => /\ last.err = "none"
             /\ last.ret = <<>>
             /\ stream = last.pre

\* C7 witness: read(-1) failed at the end of a stream that holds bytes
C7_Witness ==
    /\ last.op = "read"
    /\ last.arg = -1
    /\ last.err = "IOError"
    /\ tell(last.pre) = Len(getvalue(last.pre))
    /\ Len(getvalue(last.pre)) > 0

-----------------------------------------------------------------------------
(* Properties of the typed writers and readers (SpecTyped) *)

\* the range the specification declares for each integer type
DeclaredLo(X) ==
    CASE X = "uchar" -> Num(0)
      [] X = "char" -> Num(-128)
      [] X = "ushort" -> Num(0)
      [] X = "short" -> Num(-32768)
      [] X = "ulong" -> Num(0)
      [] X = "long" -> Big(-32768, 0)
      [] X = "24bit_uint" -> Num(0)
      [] X = "24bit_int" -> Num(-8388608)

DeclaredHi(X) ==
    CASE X = "uchar" -> Num(255)
      [] X = "char" -> Num(127)
      [] X = "ushort" -> Num(65535)
      [] X = "short" -> Num(32767)
      [] X = "ulong" -> Big(65535, 65535)
      [] X = "long" -> Big(32767, 65535)
      [] X = "24bit_uint" -> Num(16777215)
      [] X = "24bit_int" -> Num(8388607)

InDeclaredRange(X, v) == LE(DeclaredLo(X), v) /\ LE(v, DeclaredHi(X))

\* C8: a typed write that fails with TypeError or OverflowError leaves
\* storage, cursor and length exactly as before the call.
C8_FailedWriteWritesNothing ==
    (last.op = "write_X" /\ last.err \in {"TypeError", "OverflowError"})
    => stream = last.pre

\* C8 witness: write_24bit_int overflowed in the middle of a stream
C8_Witness ==
    /\ last.op = "write_X"
    /\ last.arg.X = "24bit_int"
    /\ last.err = "OverflowError"
    /\ 0 < tell(stream) /\ tell(stream) < Len(getvalue(stream))

\* C9: for every integer type X and integer v, write_X(v) fails with
\* OverflowError if and only if v is outside X's declared range.
C9_OverflowIffOutOfRange ==
    (last.op = "write_X" /\ last.arg.X \in IntTypes /\ last.arg.v.kind = "int")
    => (last.err = "OverflowError" <=> ~InDeclaredRange(last.arg.X, last.arg.v.v))

\* C9 witness: write_ulong refused 4294967296, the value next to its limit
C9_Witness ==
    /\ last.op = "write_X"
    /\ last.arg.X = "ulong"
    /\ last.arg.v = IntArg(Big(65536, 0))
    /\ last.err = "OverflowError"

\* C10: write_X(v), seek back to the start, read_X() returns v, for every
\* integer type, every v in its declared range, every endian code and
\* every starting position.
C10_RoundTrip ==
    (/\ trip.phase = "read"
     /\ trip.X \in IntTypes
     /\ trip.v.kind = "int"
     /\ InDeclaredRange(trip.X, trip.v.v))
    => /\ last.err = "none"
       /\ last.ret = trip.v.v

\* the byte width the specification declares for each integer type
Width(X) ==
    CASE X \in {"uchar", "char"} -> 1
      [] X \in {"ushort", "short"} -> 2
      [] X \in {"24bit_uint", "24bit_int"} -> 3
      [] X \in {"ulong", "long"} -> 4

\* the bytes between the cursor before the last call and the cursor after it
Written == SubSeq(getvalue(stream), tell(last.pre) + 1, tell(stream))

\* C11: a successful write_X of an integer type advances the cursor by
\* exactly X's width (1, 2, 3 or 4) and the storage ends at the greater of
\* its old end and the new cursor, for each of the four endian codes.
\* The code does not keep this: under '@' the long codecs take the size
\* of the host's C long.
C11_WritesExactWidth ==
    (last.op = "write_X" /\ last.arg.X \in IntTypes /\ last.err = "none")
    => /\ tell(stream) = tell(last.pre) + Width(last.arg.X)
       /\ Len(getvalue(stream)) =
              Max(Len(getvalue(last.pre)), tell(last.pre) + Width(last.arg.X))

\* the integer types of more than one byte
MultiByteTypes == IntTypes \ {"uchar", "char"}

\* the Width(X) low bytes of v, most significant first
BigBytes(X, v) == [i \in 1..Width(X) |-> ByteAt(v, Width(X) - i)]

\* C12: a multi-byte integer is written most significant byte first under
\* big-endian and network, and in exactly the reverse order under
\* little-endian.
C12_ByteLayout ==
    (/\ last.op = "write_X"
     /\ last.arg.X \in MultiByteTypes
     /\ last.arg.v.kind = "int"
     /\ last.err = "none")
    => /\ last.pre._endian \in {ENDIAN_BIG, ENDIAN_NETWORK}
          => Written = BigBytes(last.arg.X, last.arg.v.v)
       /\ last.pre._endian = ENDIAN_LITTLE
          => Written = Reverse(BigBytes(last.arg.X, last.arg.v.v))

\* C12 witness: write_ulong(1) wrote 01 00 00 00 under little-endian
C12_Witness ==
    /\ last.op = "write_X"
    /\ last.arg.X = "ulong"
    /\ last.arg.v = IntArg(Num(1))
    /\ last.pre._endian = ENDIAN_LITTLE
    /\ Written = <<1, 0, 0, 0>>

-----------------------------------------------------------------------------
(* Properties of the endian property (SpecTyped) *)

\* the bytes of the storage where the value of the current trip was written
Stored == SubSeq(getvalue(stream), trip.start + 1, trip.start + Width(trip.X))

\* C13: assigning a valid endian code leaves storage, cursor and length
\* unchanged, and a value read after the assignment is decoded from the
\* bytes already there in the new byte order.
C13_EndianKeepsStorage ==
    /\ (last.op = "endian" /\ last.err = "none")
       => /\ getvalue(stream) = getvalue(last.pre)
          /\ tell(stream) = tell(last.pre)
          /\ stream._len = last.pre._len
          /\ __len__(stream).ret = __len__(last.pre).ret
    /\ (trip.phase = "reread" /\ trip.X \in MultiByteTypes /\ last.err = "none")
       => /\ InDeclaredRange(trip.X, last.ret)
          /\ stream._endian \in {ENDIAN_BIG, ENDIAN_NETWORK}
             => BigBytes(trip.X, last.ret) = Stored
          /\ stream._endian = ENDIAN_LITTLE
             => BigBytes(trip.X, last.ret) = Reverse(Stored)

\* C13 witness: 258 was written as a ushort, the endian was assigned, and
\* the same two bytes read back as 513
C13_Witness ==
    /\ trip.phase = "reread"
    /\ trip.X = "ushort"
    /\ trip.v = IntArg(Num(258))
    /\ last.err = "none"
    /\ last.ret = Num(513)
    /\ Stored \in {<<1, 2>>, <<2, 1>>}

\* C14: the endian is always one of the four codes and the codec table is
\* the one compiled for it; an assignment outside the four codes fails with
\* ValueError and changes nothing; reading endian gives the code last
\* assigned, '@' included.
C14_EndianAlwaysValid ==
    /\ stream._endian \in VALID_ENDIANS
    /\ DOMAIN stream._packers = {"B", "b", "h", "H", "l", "L", "d", "f"}
    /\ \A fmt \in DOMAIN stream._packers :
           stream._packers[fmt] = [endian |-> stream._endian, fmt |-> fmt]
    /\ endian_get(stream).self = stream
    /\ last.op = "endian"
       => IF last.arg \in {"!", "@", "<", ">"}
          THEN last.err = "none" /\ endian_get(stream).ret = last.arg
          ELSE /\ last.err = "ValueError"
               /\ stream = last.pre
               /\ endian_get(stream).ret = endian_get(last.pre).ret

\* C14 witness: '=' was refused on a native-endian stream whose cursor had
\* moved, and the endian still reads '@'
C14_Witness ==
    /\ last.op = "endian"
    /\ last.arg = "="
    /\ last.err = "ValueError"
    /\ endian_get(stream).ret = "@"
    /\ tell(stream) > 0

-----------------------------------------------------------------------------
(* Properties of append, + and write (Spec) *)

\* the bytes append(data) is to add: the UTF-8 form of a text, the content
\* of a stream or a file, the bytes of a byte string
Appended(data) == IF data.kind = "text" THEN utf8_encode(data.value) ELSE data.value

\* C15: a successful append leaves tell() as it was and the old bytes in
\* place, and puts the new bytes from the old length onward, whatever the
\* cursor position.
C15_AppendKeepsCursor ==
    (last.op = "append" /\ last.err = "none")
    => /\ tell(stream) = tell(last.pre)
       /\ getvalue(stream) = getvalue(last.pre) \o Appended(last.arg)
       /\ __len__(stream).ret = __len__(last.pre).ret + Len(Appended(last.arg))

\* C15 witness: a text was appended to a stream whose cursor was in the
\* middle
C15_Witness ==
    /\ last.op = "append"
    /\ last.err = "none"
    /\ last.arg.kind = "text"
    /\ 0 < tell(last.pre) /\ tell(last.pre) < Len(getvalue(last.pre))
    /\ getvalue(stream) = getvalue(last.pre) \o <<97>>

C17_AddConcatenates ==
    /\ (last.op = "__add__" /\ last.arg.kind = "stream")
       => /\ last.err = "none"
          /\ sum.live
          /\ getvalue(sum.new) = getvalue(last.pre) \o last.arg.value
          /\ getvalue(stream) = getvalue(last.pre)
          /\ tell(stream) = tell(last.pre)
          /\ sum.other = last.arg
    /\ last.op = "new.write"
       => /\ getvalue(stream) = getvalue(last.pre)
          /\ tell(stream) = tell(last.pre)
          /\ sum.other = last.arg.other

\* C17 witness: a, with its cursor in the middle, was added to b, and two
\* bytes of the result were then overwritten
C17_Witness ==
    /\ last.op = "new.write"
    /\ Len(last.arg.s) = 2
    /\ 0 < tell(stream) /\ tell(stream) < Len(getvalue(stream))
    /\ Len(getvalue(sum.new)) = Len(getvalue(stream)) + Len(sum.other.value)
    /\ getvalue(sum.new) # getvalue(stream) \o sum.other.value

\* C18: write(s) of k bytes at cursor c on a stream of length L puts s at
\* the offsets [c, c+k), leaves every other byte that existed where it
\* was, moves the cursor to c+k and makes the length max(L, c+k).
\* With the cursor past the end (see C1) an empty write leaves the length
\* at L, below the cursor.
C18_WriteOverwritesOrAppends ==
    last.op = "write"
    => /\ last.err = "none"
       /\ SubSeq(getvalue(stream), tell(last.pre) + 1, tell(last.pre) + Len(last.arg))
              = last.arg
       /\ \A i \in 1..Len(getvalue(last.pre)) :
              (i <= tell(last.pre) \/ i > tell(last.pre) + Len(last.arg))
              => (i <= Len(getvalue(stream)) /\ getvalue(stream)[i] = getvalue(last.pre)[i])
       /\ tell(stream) = tell(last.pre) + Len(last.arg)
       /\ __len__(stream).ret = Max(Len(getvalue(last.pre)), tell(last.pre) + Len(last.arg))

-----------------------------------------------------------------------------
(* Properties of the typed readers (SpecTyped) and of peek(-1) (Spec) *)

\* C19: a typed integer read fails with IOError whenever fewer bytes than
\* its width remain, and a typed read that fails leaves the cursor where
\* it was.
\* The code does not keep this: the 24-bit readers read byte by byte and
\* keep the bytes they consumed when a later byte is missing.
C19_ShortReadIsAtomic ==
    (last.op = "read_X" /\ last.arg.X \in IntTypes)
    => /\ Len(getvalue(last.pre)) - tell(last.pre) < Width(last.arg.X)
          => last.err = "IOError"
       /\ last.err # "none" => tell(stream) = tell(last.pre)

\* C20: peek(-1) terminates in every reachable state, never re-entering
\* peek with -1, and with the cursor within the storage it returns the
\* bytes from the cursor to the end.
\* The code does not keep this: with the cursor one past the end,
\* len(stream) - tell() is -1 and peek(-1) calls itself without end.
C20_PeekAllTerminates ==
    (last.op = "peek" /\ last.arg = -1)
    => /\ last.err # "RecursionError"
       /\ tell(last.pre) <= Len(getvalue(last.pre))
          => (last.err = "none" /\ last.ret = Unread(last.pre))

=============================================================================
